---------------------------- MODULE Spec2Model ----------------------------
(***************************************************************************)
(* Model of the Knoll Telegram bot (src/src/main.py).                      *)
(*                                                                         *)
(* The command handler `ask` is a coroutine.  Coroutines of one event loop *)
(* interleave only where they await: every reply_text, Runner.run and      *)
(* asyncio.sleep.  One action of this model is therefore one run of a      *)
(* handler from the point where it is resumed to its next await (or to     *)
(* its return).  pc[c] names the await at which handler c is suspended.    *)
(*                                                                         *)
(* Time is counted in whole seconds.  time.time() is the wall clock, which *)
(* is not monotonic, so a handler may read any value of Times.             *)
(***************************************************************************)
EXTENDS Integers, Sequences, FiniteSets, TLC

(***************************************************************************)
(* Program constants.                                                      *)
(***************************************************************************)
\* main.py:32  MIN_MESSAGE_INTERVAL = 2.0
MIN_MESSAGE_INTERVAL == 2
\* main.py:117,119  the literal 4096, Telegram's message length limit
MAX_CHUNK == 4096
\* the retry_after carried by the RetryAfter errors (tests/test_main.py:115)
RETRY_AFTER_SECONDS == 30
\* main.py:226  for attempt in range(3)
WEBHOOK_ATTEMPTS == 3

(***************************************************************************)
(* Bounds of the model.                                                    *)
(***************************************************************************)
\* user ids are 1..MaxUsers
MaxUsers == 2
\* time.time() returns a value of 0..MaxTime
MaxTime == 3
\* the longest answer the agent returns has MaxChunks full chunks and one more character
MaxChunks == 2

\* the handlers whose interleaving is examined: one command each, the
\* second arriving at any point of the handling of the first
Cmds  == {1, 2}
Users == 1..MaxUsers
Times == 0..MaxTime

(***************************************************************************)
(* Texts.                                                                  *)
(***************************************************************************)
RECURSIVE Repeat(_, _)
\* Python's  s * n
Repeat(s, n) ==
    IF n = 0 THEN ""
    ELSE IF n % 2 = 1 THEN s \o Repeat(s, n - 1)
    ELSE LET h == Repeat(s, n \div 2) IN h \o h

\* A text of n characters whose full-size chunks all differ (7 does not divide 4096).
Text(n) == SubSeq(Repeat("abcdefg", (n \div 7) + 1), 1, n)

\* context.args of the commands: "/ask" and "/ask What is Python?"
ArgLists == { <<>>, <<"What", "is", "Python?">> }

\* result.final_output of the agent in the concurrent specification:
\* a short answer and one that needs two messages (tests/test_main.py:26,89)
Answers == { "Python is a programming language.", Text(5000) }

\* lengths around every multiple of MAX_CHUNK up to MaxChunks chunks
BoundaryLengths ==
    { n \in { k * MAX_CHUNK + d : k \in 0..MaxChunks, d \in {-1, 0, 1} } : n >= 0 }

\* result.final_output of the agent in the dispatch specification
DispatchAnswers == { Text(n) : n \in BoundaryLengths \cup {9000} }

\* main.py:82
PLEASE_WAIT == "Please wait a moment before asking another question..."
\* main.py:94
FORGOT_TO_ASK == "you forgot to ask ..."

\* main.py:143  the f-string of the fallback notice
FallbackNotice(retry_after) ==
    "Response ready but rate limited. Please wait " \o ToString(retry_after)
        \o " seconds before asking again."

\* main.py:157  the f-string sent when the agent call raised RetryAfter
RetryNotice(retry_after) ==
    "Rate limit exceeded. Please wait " \o ToString(retry_after)
        \o " seconds before trying again."

\* mutant: the text of the error is left out
ErrorAnswer_generic(e) == "Knoll encountered an error"

\* main.py:163  answer = f"Knoll encountered an error: {e}"
ErrorAnswer(e) == "Knoll encountered an error: " \o e

(***************************************************************************)
(* Outcomes of the awaited calls.  An awaited call returns ("ok") or       *)
(* raises telegram.error.RetryAfter or another Exception whose str() is    *)
(* msg.                                                                    *)
(***************************************************************************)
Ok == [kind |-> "ok", value |-> "", retry_after |-> 0, msg |-> ""]
Returns(v) == [kind |-> "ok", value |-> v, retry_after |-> 0, msg |-> ""]
RaisesRetryAfter(n) == [kind |-> "RetryAfter", value |-> "", retry_after |-> n, msg |-> ""]
RaisesException(m) == [kind |-> "Exception", value |-> "", retry_after |-> 0, msg |-> m]

\* what update.message.reply_text does: ok | Overloaded | Rejected
SendOutcomes ==
    { Ok, RaisesRetryAfter(RETRY_AFTER_SECONDS), RaisesException("Forbidden") }

\* what Runner.run does with each set of answers
AgentOutcomesOf(answers) ==
    { Returns(a) : a \in answers }
        \cup { RaisesRetryAfter(RETRY_AFTER_SECONDS), RaisesException("timeout") }

VARIABLES
    last_message_time,  \* main.py:31   dict user id -> time of the last accepted command
    is_shutting_down,   \* main.py:36
    pc,                 \* per handler: the await it is suspended at, or how it ended
    user_id,            \* per handler: update.effective_user.id
    args,               \* per handler: context.args
    current_time,       \* per handler: local of ask (main.py:69)
    user_query,         \* per handler: local of ask (main.py:90)
    answer,             \* per handler: local of ask (main.py:109, 163)
    chunks,             \* per handler: local of ask (main.py:119)
    i,                  \* per handler: index of the chunk loop (main.py:121), from 0
    retry_after,        \* per handler: local of ask (main.py:136, 151)
    calls,              \* per handler: the awaited calls it made, in order, each
                        \* with its outcome ("pending" while it is awaited)
    webhook,            \* per update: the await webhook_handler is suspended at, or
                        \* the "status" it returned (main.py:321-344)
    health,             \* the last answer of GET /health (main.py:279-301)
    lifespan_pc,        \* the await lifespan is suspended at (main.py:215-262)
    attempt,            \* local of lifespan: index of the loop of main.py:228
    webhook_configured, \* local of lifespan (main.py:219)
    lifespan_calls      \* the awaited calls of lifespan, in order, with their outcomes

locals == <<user_id, args, current_time, user_query, answer, chunks, i, retry_after>>
lifespan_vars == <<lifespan_pc, attempt, webhook_configured, lifespan_calls>>
\* the state of the HTTP boundary, which ask does not touch
boundary == <<webhook, health, lifespan_vars>>
vars == <<last_message_time, is_shutting_down, pc, locals, calls, boundary>>


(***************************************************************************)
(* Pure parts of ask.                                                      *)
(***************************************************************************)
RECURSIVE Join_concat(_)
\* mutant: "".join(context.args)
Join_concat(tokens) ==
    IF tokens = <<>> THEN "" ELSE tokens[1] \o Join_concat(Tail(tokens))

RECURSIVE Join(_)
\* main.py:90  " ".join(context.args)
Join(tokens) ==
    IF tokens = <<>> THEN ""
    ELSE IF Len(tokens) = 1 THEN tokens[1]
    ELSE tokens[1] \o " " \o Join(Tail(tokens))

\* mutant: a time read before the recorded one does not count as inside the window
IsRateLimited_nonneg(lmt, uid, now) ==
    /\ uid \in DOMAIN lmt
    /\ LET time_since_last == now - lmt[uid]
       IN  0 <= time_since_last /\ time_since_last < MIN_MESSAGE_INTERVAL

\* mutant: the boundary is inside the window
IsRateLimited_le(lmt, uid, now) ==
    /\ uid \in DOMAIN lmt
    /\ LET time_since_last == now - lmt[uid]
       IN  time_since_last <= MIN_MESSAGE_INTERVAL

\* main.py:74-76  the rate limiting check: uid has an entry and less than
\* MIN_MESSAGE_INTERVAL passed since it
IsRateLimited(lmt, uid, now) ==
    /\ uid \in DOMAIN lmt
    /\ LET time_since_last == now - lmt[uid]
       IN  time_since_last < MIN_MESSAGE_INTERVAL

\* mutant: the write is lost
RecordTime_lost(lmt, uid, now) == lmt

\* mutant: last_message_time = {user_id: current_time}
RecordTime_clobber(lmt, uid, now) == [u \in {uid} |-> now]

\* main.py:105  last_message_time[user_id] = current_time
RecordTime(lmt, uid, now) ==
    [u \in DOMAIN lmt \cup {uid} |-> IF u = uid THEN now ELSE lmt[u]]

\* Python's  s[lo : hi]  for 0 <= lo <= hi: the end is clipped to len(s)
Slice(s, lo, hi) ==
    SubSeq(s, lo + 1, IF hi < Len(s) THEN hi ELSE Len(s))

\* Python's  range(0, n, step)  as the sequence of its values
Range0(n, step) ==
    [k \in 1..((n + step - 1) \div step) |-> (k - 1) * step]

\* mutant: answer[i : i + 4095]
Chunks_short(ans) ==
    LET starts == Range0(Len(ans), MAX_CHUNK)
    IN  [k \in 1..Len(starts) |-> Slice(ans, starts[k], starts[k] + MAX_CHUNK - 1)]

\* main.py:119  [answer[i : i + 4096] for i in range(0, len(answer), 4096)]
Chunks(ans) ==
    LET starts == Range0(Len(ans), MAX_CHUNK)
    IN  [k \in 1..Len(starts) |-> Slice(ans, starts[k], starts[k] + MAX_CHUNK)]

(***************************************************************************)
(* The record of awaited calls.                                            *)
(***************************************************************************)
\* the handler starts to await  op(arg)
Issue(cs, op, arg) == Append(cs, [op |-> op, arg |-> arg, result |-> "pending"])

\* the call the handler awaits ends with `outcome`
Complete(cs, outcome) == [cs EXCEPT ![Len(cs)].result = outcome.kind]

(***************************************************************************)
(* Initial state: the module has been imported (main.py:31-36) and no      *)
(* command has arrived.                                                    *)
(***************************************************************************)
Init ==
    /\ last_message_time = <<>>
    /\ is_shutting_down = FALSE
    /\ pc = [c \in Cmds |-> "idle"]
    /\ user_id = [c \in Cmds |-> 0]
    /\ args = [c \in Cmds |-> <<>>]
    /\ current_time = [c \in Cmds |-> 0]
    /\ user_query = [c \in Cmds |-> ""]
    /\ answer = [c \in Cmds |-> ""]
    /\ chunks = [c \in Cmds |-> <<>>]
    /\ i = [c \in Cmds |-> 0]
    /\ retry_after = [c \in Cmds |-> 0]
    /\ calls = [c \in Cmds |-> <<>>]
    /\ webhook = [c \in Cmds |-> "idle"]
    /\ health = "none"
    /\ lifespan_pc = "start"
    /\ attempt = 0
    /\ webhook_configured = FALSE
    /\ lifespan_calls = <<>>

(***************************************************************************)
(* ask, from its call to its first await (main.py:62-108).  Nothing is     *)
(* awaited between the rate check and the write of the timestamp.          *)
(***************************************************************************)
\* mutant: the command is refused with a reply
ask_drop_replies(c) ==
    /\ pc' = [pc EXCEPT ![c] = "dropped"]
    /\ calls' = [calls EXCEPT ![c] = Issue(@, "reply_text", PLEASE_WAIT)]
    /\ UNCHANGED <<last_message_time, current_time, user_query>>

\* main.py:63-65  the shutdown gate
ask_drop(c) ==
    /\ pc' = [pc EXCEPT ![c] = "dropped"]
    /\ UNCHANGED <<last_message_time, current_time, user_query, calls>>

\* mutant: the time is recorded before the rate check
ask_rate_limited_records(c, now) ==
    /\ current_time' = [current_time EXCEPT ![c] = now]
    /\ last_message_time' = RecordTime(last_message_time, user_id'[c], now)
    /\ calls' = [calls EXCEPT ![c] = Issue(@, "reply_text", PLEASE_WAIT)]
    /\ pc' = [pc EXCEPT ![c] = "await_rate_limit_reply"]
    /\ UNCHANGED user_query

\* main.py:76-83  the sender is inside the window: reply and stop
ask_rate_limited(c, now) ==
    /\ current_time' = [current_time EXCEPT ![c] = now]
    /\ calls' = [calls EXCEPT ![c] = Issue(@, "reply_text", PLEASE_WAIT)]
    /\ pc' = [pc EXCEPT ![c] = "await_rate_limit_reply"]
    /\ UNCHANGED <<last_message_time, user_query>>

\* mutant: the time is recorded before the query is validated
ask_empty_query_records(c, now) ==
    /\ current_time' = [current_time EXCEPT ![c] = now]
    /\ user_query' = [user_query EXCEPT ![c] = ""]
    /\ last_message_time' = RecordTime(last_message_time, user_id'[c], now)
    /\ calls' = [calls EXCEPT ![c] = Issue(@, "reply_text", FORGOT_TO_ASK)]
    /\ pc' = [pc EXCEPT ![c] = "await_empty_reply"]

\* main.py:90-94  no query: reply and stop
ask_empty_query(c, now) ==
    /\ current_time' = [current_time EXCEPT ![c] = now]
    /\ user_query' = [user_query EXCEPT ![c] = ""]
    /\ calls' = [calls EXCEPT ![c] = Issue(@, "reply_text", FORGOT_TO_ASK)]
    /\ pc' = [pc EXCEPT ![c] = "await_empty_reply"]
    /\ UNCHANGED last_message_time

\* mutant: the time is recorded only after the agent has answered
ask_accept_unrecorded(c, uid, query, now) ==
    /\ current_time' = [current_time EXCEPT ![c] = now]
    /\ user_query' = [user_query EXCEPT ![c] = query]
    /\ calls' = [calls EXCEPT ![c] = Issue(@, "Runner.run", query)]
    /\ pc' = [pc EXCEPT ![c] = "await_agent"]
    /\ UNCHANGED last_message_time

\* main.py:101-108  record the time, then call the agent
ask_accept(c, uid, query, now) ==
    /\ current_time' = [current_time EXCEPT ![c] = now]
    /\ user_query' = [user_query EXCEPT ![c] = query]
    /\ last_message_time' = RecordTime(last_message_time, uid, now)
    /\ calls' = [calls EXCEPT ![c] = Issue(@, "Runner.run", query)]
    /\ pc' = [pc EXCEPT ![c] = "await_agent"]

\* mutant: the query is validated before the rate check
ask_validates_first(c, uid, tokens, now) ==
    /\ pc[c] = "idle"
    /\ user_id' = [user_id EXCEPT ![c] = uid]
    /\ args' = [args EXCEPT ![c] = tokens]
    /\ IF is_shutting_down
         THEN ask_drop(c)
         ELSE IF Join(tokens) = ""
                THEN ask_empty_query(c, now)
                ELSE IF IsRateLimited(last_message_time, uid, now)
                       THEN ask_rate_limited(c, now)
                       ELSE ask_accept(c, uid, Join(tokens), now)
    /\ UNCHANGED <<is_shutting_down, answer, chunks, i, retry_after>>

\* main.py:62-108  handler c is called with the update of user uid and the
\* arguments tokens; time.time() returns now
ask(c, uid, tokens, now) ==
    /\ pc[c] = "idle"
    /\ user_id' = [user_id EXCEPT ![c] = uid]
    /\ args' = [args EXCEPT ![c] = tokens]
    /\ IF is_shutting_down
         THEN ask_drop(c)
         ELSE IF IsRateLimited(last_message_time, uid, now)
                THEN ask_rate_limited(c, now)
                ELSE IF Join(tokens) = ""
                       THEN ask_empty_query(c, now)
                       ELSE ask_accept(c, uid, Join(tokens), now)
    /\ UNCHANGED <<is_shutting_down, answer, chunks, i, retry_after>>

(***************************************************************************)
(* The replies of the two early exits (main.py:80-88, 93-99).  Only        *)
(* RetryAfter is caught: any other error of reply_text leaves ask.         *)
(***************************************************************************)
\* main.py:80-88
rate_limit_reply_returns(c, outcome) ==
    /\ pc[c] = "await_rate_limit_reply"
    /\ calls' = [calls EXCEPT ![c] = Complete(@, outcome)]
    /\ pc' = [pc EXCEPT ![c] = IF outcome.kind = "Exception" THEN "raised" ELSE "done"]
    /\ UNCHANGED <<last_message_time, is_shutting_down, locals>>

\* main.py:93-99
empty_reply_returns(c, outcome) ==
    /\ pc[c] = "await_empty_reply"
    /\ calls' = [calls EXCEPT ![c] = Complete(@, outcome)]
    /\ pc' = [pc EXCEPT ![c] = IF outcome.kind = "Exception" THEN "raised" ELSE "done"]
    /\ UNCHANGED <<last_message_time, is_shutting_down, locals>>

(***************************************************************************)
(* The except clauses of the try statement of main.py:103-169, entered     *)
(* with the exception that left its body.  `done` is the record of calls   *)
(* with the failed call completed.                                         *)
(***************************************************************************)
\* main.py:149-158  except RetryAfter
except_RetryAfter(c, exc, done) ==
    /\ retry_after' = [retry_after EXCEPT ![c] = exc.retry_after]
    /\ calls' = [calls EXCEPT ![c] =
                    Issue(done, "reply_text", RetryNotice(exc.retry_after))]
    /\ pc' = [pc EXCEPT ![c] = "await_retry_notice"]
    /\ UNCHANGED answer

\* main.py:161-165  except Exception
except_Exception(c, exc, done) ==
    /\ answer' = [answer EXCEPT ![c] = ErrorAnswer(exc.msg)]
    /\ calls' = [calls EXCEPT ![c] = Issue(done, "reply_text", ErrorAnswer(exc.msg))]
    /\ pc' = [pc EXCEPT ![c] = "await_error_reply"]
    /\ UNCHANGED retry_after

\* main.py:149, 161  the clause that matches is chosen in order
raised_in_try(c, exc, done) ==
    IF exc.kind = "RetryAfter"
      THEN except_RetryAfter(c, exc, done)
      ELSE except_Exception(c, exc, done)

(***************************************************************************)
(* The agent call and the dispatch of its answer (main.py:107-147).        *)
(***************************************************************************)
\* main.py:108-114  Runner.run returns or raises
agent_returns(c, outcome) ==
    /\ pc[c] = "await_agent"
    /\ IF outcome.kind = "ok"
         THEN /\ answer' = [answer EXCEPT ![c] = outcome.value]
              /\ calls' = [calls EXCEPT ![c] = Issue(Complete(@, outcome), "sleep", "1.0")]
              /\ pc' = [pc EXCEPT ![c] = "await_sleep"]
              /\ UNCHANGED retry_after
         ELSE raised_in_try(c, outcome, Complete(calls[c], outcome))
    /\ UNCHANGED <<last_message_time, is_shutting_down,
                   user_id, args, current_time, user_query, chunks, i>>

\* main.py:114-123, 134  the delay is over: split a long answer and send the
\* first chunk, or send a short answer whole
sleep_returns(c) ==
    /\ pc[c] = "await_sleep"
    /\ IF Len(answer[c]) > MAX_CHUNK
         THEN /\ chunks' = [chunks EXCEPT ![c] = Chunks(answer[c])]
              /\ i' = [i EXCEPT ![c] = 0]
              /\ calls' = [calls EXCEPT ![c] =
                              Issue(Complete(@, Ok), "reply_text", Chunks(answer[c])[1])]
              /\ pc' = [pc EXCEPT ![c] = "await_chunk"]
         ELSE /\ calls' = [calls EXCEPT ![c] =
                              Issue(Complete(@, Ok), "reply_text", answer[c])]
              /\ pc' = [pc EXCEPT ![c] = "await_answer"]
              /\ UNCHANGED <<chunks, i>>
    /\ UNCHANGED <<last_message_time, is_shutting_down,
                   user_id, args, current_time, user_query, answer, retry_after>>

\* mutant: no delay between two chunks
chunk_returns_unpaced(c, outcome) ==
    /\ pc[c] = "await_chunk"
    /\ IF outcome.kind = "ok"
         THEN IF i[c] < Len(chunks[c]) - 1
                THEN /\ calls' = [calls EXCEPT ![c] =
                                     Issue(Complete(@, outcome), "reply_text",
                                           chunks[c][i[c] + 2])]
                     /\ i' = [i EXCEPT ![c] = @ + 1]
                     /\ pc' = [pc EXCEPT ![c] = "await_chunk"]
                     /\ UNCHANGED <<answer, retry_after>>
                ELSE /\ calls' = [calls EXCEPT ![c] = Complete(@, outcome)]
                     /\ pc' = [pc EXCEPT ![c] = "done"]
                     /\ UNCHANGED <<answer, retry_after, i>>
         ELSE IF outcome.kind = "RetryAfter"
                THEN /\ calls' = [calls EXCEPT ![c] = Complete(@, outcome)]
                     /\ pc' = [pc EXCEPT ![c] = "done"]
                     /\ UNCHANGED <<answer, retry_after, i>>
                ELSE /\ raised_in_try(c, outcome, Complete(calls[c], outcome))
                     /\ UNCHANGED i
    /\ UNCHANGED <<last_message_time, is_shutting_down,
                   user_id, args, current_time, user_query, chunks>>

\* mutant: `continue` in place of `break`: an overloaded chunk is passed over
chunk_returns_continues(c, outcome) ==
    /\ pc[c] = "await_chunk"
    /\ IF outcome.kind \in {"ok", "RetryAfter"}
         THEN IF i[c] < Len(chunks[c]) - 1
                THEN /\ calls' = [calls EXCEPT ![c] =
                                     Issue(Complete(@, outcome), "sleep", "1.0")]
                     /\ pc' = [pc EXCEPT ![c] = "await_chunk_sleep"]
                     /\ UNCHANGED <<answer, retry_after>>
                ELSE /\ calls' = [calls EXCEPT ![c] = Complete(@, outcome)]
                     /\ pc' = [pc EXCEPT ![c] = "done"]
                     /\ UNCHANGED <<answer, retry_after>>
         ELSE raised_in_try(c, outcome, Complete(calls[c], outcome))
    /\ UNCHANGED <<last_message_time, is_shutting_down,
                   user_id, args, current_time, user_query, chunks, i>>

\* mutant: an overloaded chunk is answered with the notice of the short answer
chunk_returns_notifies(c, outcome) ==
    /\ pc[c] = "await_chunk"
    /\ IF outcome.kind = "ok"
         THEN IF i[c] < Len(chunks[c]) - 1
                THEN /\ calls' = [calls EXCEPT ![c] =
                                     Issue(Complete(@, outcome), "sleep", "1.0")]
                     /\ pc' = [pc EXCEPT ![c] = "await_chunk_sleep"]
                     /\ UNCHANGED <<answer, retry_after>>
                ELSE /\ calls' = [calls EXCEPT ![c] = Complete(@, outcome)]
                     /\ pc' = [pc EXCEPT ![c] = "done"]
                     /\ UNCHANGED <<answer, retry_after>>
         ELSE IF outcome.kind = "RetryAfter"
                THEN /\ retry_after' = [retry_after EXCEPT ![c] = outcome.retry_after]
                     /\ calls' = [calls EXCEPT ![c] =
                                     Issue(Complete(@, outcome), "reply_text",
                                           FallbackNotice(outcome.retry_after))]
                     /\ pc' = [pc EXCEPT ![c] = "await_fallback"]
                     /\ UNCHANGED answer
                ELSE raised_in_try(c, outcome, Complete(calls[c], outcome))
    /\ UNCHANGED <<last_message_time, is_shutting_down,
                   user_id, args, current_time, user_query, chunks, i>>

\* main.py:121-130  the send of chunk i returns or raises
chunk_returns(c, outcome) ==
    /\ pc[c] = "await_chunk"
    /\ IF outcome.kind = "ok"
         THEN IF i[c] < Len(chunks[c]) - 1
                THEN /\ calls' = [calls EXCEPT ![c] =
                                     Issue(Complete(@, outcome), "sleep", "1.0")]
                     /\ pc' = [pc EXCEPT ![c] = "await_chunk_sleep"]
                     /\ UNCHANGED <<answer, retry_after>>
                ELSE /\ calls' = [calls EXCEPT ![c] = Complete(@, outcome)]
                     /\ pc' = [pc EXCEPT ![c] = "done"]
                     /\ UNCHANGED <<answer, retry_after>>
         ELSE IF outcome.kind = "RetryAfter"
                THEN /\ calls' = [calls EXCEPT ![c] = Complete(@, outcome)]
                     /\ pc' = [pc EXCEPT ![c] = "done"]
                     /\ UNCHANGED <<answer, retry_after>>
                ELSE raised_in_try(c, outcome, Complete(calls[c], outcome))
    /\ UNCHANGED <<last_message_time, is_shutting_down,
                   user_id, args, current_time, user_query, chunks, i>>

\* mutant: the index of the loop does not advance: after the delay the same
\* chunk is sent again (the record keeps one entry for the repeated send)
chunk_sleep_returns_loops(c) ==
    /\ pc[c] = "await_chunk_sleep"
    /\ calls' = [calls EXCEPT ![c] =
                    [SubSeq(@, 1, Len(@) - 1) EXCEPT ![Len(@) - 1].result = "pending"]]
    /\ pc' = [pc EXCEPT ![c] = "await_chunk"]
    /\ UNCHANGED <<last_message_time, is_shutting_down, locals>>

\* mutant: the loop sends the chunk it has just sent once more
chunk_sleep_returns_repeats(c) ==
    /\ pc[c] = "await_chunk_sleep"
    /\ i' = [i EXCEPT ![c] = @ + 1]
    /\ calls' = [calls EXCEPT ![c] =
                    Issue(Complete(@, Ok), "reply_text", chunks[c][i[c] + 1])]
    /\ pc' = [pc EXCEPT ![c] = "await_chunk"]
    /\ UNCHANGED <<last_message_time, is_shutting_down,
                   user_id, args, current_time, user_query, answer, chunks, retry_after>>

\* main.py:121-125  the delay between two chunks is over: send the next chunk
chunk_sleep_returns(c) ==
    /\ pc[c] = "await_chunk_sleep"
    /\ i' = [i EXCEPT ![c] = @ + 1]
    /\ calls' = [calls EXCEPT ![c] =
                    Issue(Complete(@, Ok), "reply_text", chunks[c][i[c] + 2])]
    /\ pc' = [pc EXCEPT ![c] = "await_chunk"]
    /\ UNCHANGED <<last_message_time, is_shutting_down,
                   user_id, args, current_time, user_query, answer, chunks, retry_after>>

\* main.py:133-144  the send of a short answer returns or raises
answer_returns(c, outcome) ==
    /\ pc[c] = "await_answer"
    /\ IF outcome.kind = "ok"
         THEN /\ calls' = [calls EXCEPT ![c] = Complete(@, outcome)]
              /\ pc' = [pc EXCEPT ![c] = "done"]
              /\ UNCHANGED <<answer, retry_after>>
         ELSE IF outcome.kind = "RetryAfter"
                THEN /\ retry_after' = [retry_after EXCEPT ![c] = outcome.retry_after]
                     /\ calls' = [calls EXCEPT ![c] =
                                     Issue(Complete(@, outcome), "reply_text",
                                           FallbackNotice(outcome.retry_after))]
                     /\ pc' = [pc EXCEPT ![c] = "await_fallback"]
                     /\ UNCHANGED answer
                ELSE raised_in_try(c, outcome, Complete(calls[c], outcome))
    /\ UNCHANGED <<last_message_time, is_shutting_down,
                   user_id, args, current_time, user_query, chunks, i>>

\* mutant: an error of the fallback notice is not caught where it is raised
fallback_returns_propagates(c, outcome) ==
    /\ pc[c] = "await_fallback"
    /\ IF outcome.kind = "ok"
         THEN /\ calls' = [calls EXCEPT ![c] = Complete(@, outcome)]
              /\ pc' = [pc EXCEPT ![c] = "done"]
              /\ UNCHANGED <<answer, retry_after>>
         ELSE raised_in_try(c, outcome, Complete(calls[c], outcome))
    /\ UNCHANGED <<last_message_time, is_shutting_down,
                   user_id, args, current_time, user_query, chunks, i>>

\* main.py:141-147  the fallback notice: except Exception swallows every error
fallback_returns(c, outcome) ==
    /\ pc[c] = "await_fallback"
    /\ calls' = [calls EXCEPT ![c] = Complete(@, outcome)]
    /\ pc' = [pc EXCEPT ![c] = "done"]
    /\ UNCHANGED <<last_message_time, is_shutting_down, locals>>

\* mutant: only RetryAfter of the notice is caught
retry_notice_returns_uncaught(c, outcome) ==
    /\ pc[c] = "await_retry_notice"
    /\ calls' = [calls EXCEPT ![c] = Complete(@, outcome)]
    /\ pc' = [pc EXCEPT ![c] = IF outcome.kind = "Exception" THEN "raised" ELSE "done"]
    /\ UNCHANGED <<last_message_time, is_shutting_down, locals>>

\* main.py:155-160  the notice after the agent raised RetryAfter: every error swallowed
retry_notice_returns(c, outcome) ==
    /\ pc[c] = "await_retry_notice"
    /\ calls' = [calls EXCEPT ![c] = Complete(@, outcome)]
    /\ pc' = [pc EXCEPT ![c] = "done"]
    /\ UNCHANGED <<last_message_time, is_shutting_down, locals>>

\* mutant: the error reply is sent outside any try statement
error_reply_returns_uncaught(c, outcome) ==
    /\ pc[c] = "await_error_reply"
    /\ calls' = [calls EXCEPT ![c] = Complete(@, outcome)]
    /\ pc' = [pc EXCEPT ![c] = IF outcome.kind = "ok" THEN "done" ELSE "raised"]
    /\ UNCHANGED <<last_message_time, is_shutting_down, locals>>

\* main.py:164-169  the error reply: only RetryAfter is caught
error_reply_returns(c, outcome) ==
    /\ pc[c] = "await_error_reply"
    /\ calls' = [calls EXCEPT ![c] = Complete(@, outcome)]
    /\ pc' = [pc EXCEPT ![c] = IF outcome.kind = "Exception" THEN "raised" ELSE "done"]
    /\ UNCHANGED <<last_message_time, is_shutting_down, locals>>

(***************************************************************************)
(* Shutdown (main.py:48-58).  The handler of SIGTERM and SIGINT runs in    *)
(* the thread of the event loop.  sys.exit(0) raises SystemExit there: the *)
(* loop stops and, before the process exits, every coroutine suspended at  *)
(* an await is cancelled.  CancelledError and SystemExit are not           *)
(* Exceptions, so no except clause of ask catches them.                    *)
(***************************************************************************)
\* the handlers that are suspended at an await
InFlight == { c \in Cmds : pc[c] \notin {"idle", "dropped", "done", "raised", "cancelled"} }

\* main.py:48-53  set the flag, then sys.exit(0)
signal_handler ==
    /\ is_shutting_down' = TRUE
    /\ pc' = [c \in Cmds |-> IF c \in InFlight THEN "cancelled" ELSE pc[c]]
    /\ webhook' = [c \in Cmds |->
                     IF webhook[c] \in {"await_json", "await_process_update"}
                       THEN "cancelled" ELSE webhook[c]]
    /\ UNCHANGED <<last_message_time, locals, calls, health, lifespan_vars>>

(***************************************************************************)
(* Specifications.                                                         *)
(***************************************************************************)
\* updates are handed to the handlers in the order of their arrival
Arrived(c) == IF c = 1 THEN TRUE ELSE pc[c - 1] # "idle"

\* an accepted command takes its next step with some outcome of the call it awaits
Dispatch(c, agentOutcomes) ==
    \/ \E outcome \in agentOutcomes : agent_returns(c, outcome)
    \/ sleep_returns(c)
    \/ \E outcome \in SendOutcomes : chunk_returns(c, outcome)
    \/ chunk_sleep_returns(c)
    \/ \E outcome \in SendOutcomes : answer_returns(c, outcome)
    \/ \E outcome \in SendOutcomes : fallback_returns(c, outcome)
    \/ \E outcome \in SendOutcomes : retry_notice_returns(c, outcome)
    \/ \E outcome \in SendOutcomes : error_reply_returns(c, outcome)

AgentOutcomes == AgentOutcomesOf(Answers)
DispatchAgentOutcomes == AgentOutcomesOf(DispatchAnswers)

\* concurrent commands of several users, with a shutdown signal at any point
Next ==
    \/ \E c \in Cmds, uid \in Users, tokens \in ArgLists, now \in Times :
          Arrived(c) /\ ask(c, uid, tokens, now) /\ UNCHANGED boundary
    \/ \E c \in Cmds, outcome \in SendOutcomes :
          rate_limit_reply_returns(c, outcome) /\ UNCHANGED boundary
    \/ \E c \in Cmds, outcome \in SendOutcomes :
          empty_reply_returns(c, outcome) /\ UNCHANGED boundary
    \/ \E c \in Cmds : Dispatch(c, AgentOutcomes) /\ UNCHANGED boundary
    \/ signal_handler

Spec == Init /\ [][Next]_vars

\* the call handler c awaits returns or raises, and the event loop resumes c
HandlerStep(c) ==
    \/ \E outcome \in SendOutcomes : rate_limit_reply_returns(c, outcome)
    \/ \E outcome \in SendOutcomes : empty_reply_returns(c, outcome)
    \/ Dispatch(c, AgentOutcomes)

\* the same, for a handler that was called directly
Resumed(c) == HandlerStep(c) /\ UNCHANGED boundary

\* the times read in the liveness specification: inside and outside the window
LiveTimes == {0, MIN_MESSAGE_INTERVAL}

\* two commands of one user, with or without a query, and a shutdown signal
\* at any point
NextLive ==
    \/ \E c \in Cmds, tokens \in ArgLists, now \in LiveTimes :
          Arrived(c) /\ ask(c, 1, tokens, now) /\ UNCHANGED boundary
    \/ \E c \in Cmds : Resumed(c)
    \/ signal_handler

\* every awaited call ends and the event loop resumes the handler that
\* awaited it
SpecLive == Init /\ [][NextLive]_vars /\ \A c \in Cmds : WF_vars(Resumed(c))

\* one command with a query, whose answer has any of the lengths around the
\* multiples of MAX_CHUNK
NextDispatch ==
    \/ \E uid \in Users, now \in Times :
          ask(1, uid, <<"What", "is", "Python?">>, now) /\ UNCHANGED boundary
    \/ Dispatch(1, DispatchAgentOutcomes) /\ UNCHANGED boundary

SpecDispatch == Init /\ [][NextDispatch]_vars

(***************************************************************************)
(* The HTTP endpoints (main.py:279-344).  webhook_handler is the caller of *)
(* ask: it awaits request.json(), then telegram_app.process_update, which  *)
(* runs ask.  Whether process_update hands an exception of ask on to its   *)
(* caller is decided by the library: both outcomes are taken.              *)
(***************************************************************************)
\* the state of the command handlers and of the module's globals
core == <<last_message_time, is_shutting_down, pc, locals, calls>>

\* mutant: only an error of the parser is caught
webhook_except_narrow(kind) == IF kind = "JSONDecodeError" THEN "error" ELSE "raised"

\* main.py:342-344  except Exception: log, return {"status": "error", ...};
\* CancelledError is not an Exception
webhook_except(kind) == IF kind = "CancelledError" THEN "cancelled" ELSE "error"

\* mutant: the flag is not consulted
health_check_unaware ==
    /\ health' = "healthy"
    /\ UNCHANGED <<core, webhook, lifespan_vars>>

\* mutant: answering the health check clears the shutdown flag
health_check_clears ==
    /\ health' = IF is_shutting_down THEN "503" ELSE "healthy"
    /\ is_shutting_down' = FALSE
    /\ UNCHANGED <<last_message_time, pc, locals, calls, webhook, lifespan_vars>>

\* main.py:279-301  GET /health: HTTPException(503) while shutting down
health_check ==
    /\ health' = IF is_shutting_down THEN "503" ELSE "healthy"
    /\ UNCHANGED <<core, webhook, lifespan_vars>>

\* main.py:321-328  POST /webhook, up to  await request.json()
webhook_handler(c) ==
    /\ webhook[c] = "idle"
    /\ webhook' = [webhook EXCEPT ![c] =
                      IF is_shutting_down THEN "shutting_down" ELSE "await_json"]
    /\ UNCHANGED <<core, health, lifespan_vars>>

\* main.py:328-344  the payload is parsed or the parser raises; an update is
\* passed to process_update, which calls ask
json_returns(c, valid, uid, tokens, now) ==
    /\ webhook[c] = "await_json"
    /\ IF valid
         THEN /\ ask(c, uid, tokens, now)
              /\ webhook' = [webhook EXCEPT ![c] =
                                IF pc'[c] = "dropped" THEN "ok" ELSE "await_process_update"]
         ELSE /\ webhook' = [webhook EXCEPT ![c] = webhook_except("JSONDecodeError")]
              /\ UNCHANGED core
    /\ UNCHANGED <<health, lifespan_vars>>

\* main.py:338-344  ask is resumed inside process_update; when ask returns,
\* process_update returns, and when ask raises, process_update raises the
\* error (propagates) or logs it and returns
process_update_step(c, propagates) ==
    /\ webhook[c] = "await_process_update"
    /\ HandlerStep(c)
    /\ webhook' = [webhook EXCEPT ![c] =
                      IF pc'[c] = "done" THEN "ok"
                      ELSE IF pc'[c] = "raised"
                             THEN IF propagates THEN webhook_except("Forbidden") ELSE "ok"
                             ELSE @]
    /\ UNCHANGED <<health, lifespan_vars>>

\* the HTTP framework calls webhook_handler in the order of the requests
Received(c) == IF c = 1 THEN TRUE ELSE webhook[c - 1] # "idle"

\* two updates of one user sent to POST /webhook, GET /health and the
\* shutdown signal at any point
NextHttp ==
    \/ \E c \in Cmds : Received(c) /\ webhook_handler(c)
    \/ \E c \in Cmds, valid \in BOOLEAN, tokens \in ArgLists, now \in LiveTimes :
          json_returns(c, valid, 1, tokens, now)
    \/ \E c \in Cmds, propagates \in BOOLEAN : process_update_step(c, propagates)
    \/ health_check
    \/ signal_handler

SpecHttp == Init /\ [][NextHttp]_vars

(***************************************************************************)
(* lifespan (main.py:215-262) and setup_webhook (main.py:179-201).  The    *)
(* environment variable WEBHOOK_URL is read at every attempt (url_set).    *)
(* setup_webhook catches every Exception and returns False, so the except  *)
(* clause of main.py:235 is never entered.                                 *)
(***************************************************************************)
\* lifespan starts to await  op()
LIssue(cs, op) == Append(cs, [op |-> op, result |-> "pending"])

\* the call lifespan awaits ends with `result`
LComplete(cs, result) == [cs EXCEPT ![Len(cs)].result = result]

\* telegram_app.initialize, get_webhook_info, delete_webhook, shutdown
CallOutcomes == {"ok", "Exception"}

\* bot.set_webhook returns a truth value or raises
SetWebhookOutcomes == {"True", "False", "Exception"}

\* main.py:179-188, 228  an attempt begins: without WEBHOOK_URL setup_webhook
\* returns False at once and lifespan sleeps (main.py:232-234)
setup_webhook(url_set, done) ==
    IF url_set
      THEN /\ lifespan_calls' = LIssue(done, "get_webhook_info")
           /\ lifespan_pc' = "await_get_webhook_info"
           /\ UNCHANGED webhook_configured
      ELSE /\ webhook_configured' = FALSE
           /\ lifespan_calls' = LIssue(done, "sleep")
           /\ lifespan_pc' = "await_retry_sleep"

\* main.py:196-201, 232-234  setup_webhook returns False: warn and sleep
setup_failed(done) ==
    /\ webhook_configured' = FALSE
    /\ lifespan_calls' = LIssue(done, "sleep")
    /\ lifespan_pc' = "await_retry_sleep"

\* main.py:216-222  the application starts
lifespan_startup ==
    /\ lifespan_pc = "start"
    /\ lifespan_calls' = LIssue(lifespan_calls, "initialize")
    /\ lifespan_pc' = "await_initialize"
    /\ UNCHANGED <<attempt, webhook_configured>>
    /\ UNCHANGED <<core, webhook, health>>

\* main.py:222-228, 243-247  initialize returns: the first attempt begins;
\* or it raises: no attempt is made
initialize_returns(outcome, url_set) ==
    /\ lifespan_pc = "await_initialize"
    /\ IF outcome = "ok"
         THEN /\ attempt' = 0
              /\ setup_webhook(url_set, LComplete(lifespan_calls, outcome))
         ELSE /\ lifespan_calls' = LComplete(lifespan_calls, outcome)
              /\ lifespan_pc' = "serving"
              /\ UNCHANGED <<attempt, webhook_configured>>
    /\ UNCHANGED <<core, webhook, health>>

\* main.py:188-192, 199-201
get_webhook_info_returns(outcome) ==
    /\ lifespan_pc = "await_get_webhook_info"
    /\ IF outcome = "ok"
         THEN /\ lifespan_calls' = LIssue(LComplete(lifespan_calls, outcome), "set_webhook")
              /\ lifespan_pc' = "await_set_webhook"
              /\ UNCHANGED webhook_configured
         ELSE setup_failed(LComplete(lifespan_calls, outcome))
    /\ UNCHANGED attempt
    /\ UNCHANGED <<core, webhook, health>>

\* mutant: the loop goes on after a registration that succeeded
set_webhook_returns_no_break(outcome) ==
    /\ lifespan_pc = "await_set_webhook"
    /\ webhook_configured' = (outcome = "True")
    /\ lifespan_calls' = LIssue(LComplete(lifespan_calls, outcome), "sleep")
    /\ lifespan_pc' = "await_retry_sleep"
    /\ UNCHANGED attempt
    /\ UNCHANGED <<core, webhook, health>>

\* main.py:192-201, 229-234, 247  set_webhook returned True: leave the loop
\* and yield; anything else: the attempt failed
set_webhook_returns(outcome) ==
    /\ lifespan_pc = "await_set_webhook"
    /\ IF outcome = "True"
         THEN /\ webhook_configured' = TRUE
              /\ lifespan_calls' = LComplete(lifespan_calls, outcome)
              /\ lifespan_pc' = "serving"
         ELSE setup_failed(LComplete(lifespan_calls, outcome))
    /\ UNCHANGED attempt
    /\ UNCHANGED <<core, webhook, health>>

\* main.py:226-228, 234, 240-247  the sleep after a failed attempt is over: the next
\* attempt, or the end of the loop
retry_sleep_returns(url_set) ==
    /\ lifespan_pc = "await_retry_sleep"
    /\ IF attempt + 1 < WEBHOOK_ATTEMPTS
         THEN /\ attempt' = attempt + 1
              /\ setup_webhook(url_set, LComplete(lifespan_calls, "ok"))
         ELSE /\ lifespan_calls' = LComplete(lifespan_calls, "ok")
              /\ lifespan_pc' = "serving"
              /\ UNCHANGED <<attempt, webhook_configured>>
    /\ UNCHANGED <<core, webhook, health>>

\* main.py:249-262  the application stops: delete the webhook if one was
\* set, then (finally) shut the Telegram app down
lifespan_shutdown ==
    /\ lifespan_pc = "serving"
    /\ IF webhook_configured
         THEN /\ lifespan_calls' = LIssue(lifespan_calls, "delete_webhook")
              /\ lifespan_pc' = "await_delete_webhook"
         ELSE /\ lifespan_calls' = LIssue(lifespan_calls, "shutdown")
              /\ lifespan_pc' = "await_shutdown"
    /\ UNCHANGED <<attempt, webhook_configured>>
    /\ UNCHANGED <<core, webhook, health>>

\* mutant: the shutdown follows the deletion inside the try, without finally
delete_webhook_returns_no_finally(outcome) ==
    /\ lifespan_pc = "await_delete_webhook"
    /\ IF outcome = "ok"
         THEN /\ lifespan_calls' = LIssue(LComplete(lifespan_calls, outcome), "shutdown")
              /\ lifespan_pc' = "await_shutdown"
         ELSE /\ lifespan_calls' = LComplete(lifespan_calls, outcome)
              /\ lifespan_pc' = "stopped"
    /\ UNCHANGED <<attempt, webhook_configured>>
    /\ UNCHANGED <<core, webhook, health>>

\* main.py:253-259  delete_webhook returns or raises (logged): shutdown follows
delete_webhook_returns(outcome) ==
    /\ lifespan_pc = "await_delete_webhook"
    /\ lifespan_calls' = LIssue(LComplete(lifespan_calls, outcome), "shutdown")
    /\ lifespan_pc' = "await_shutdown"
    /\ UNCHANGED <<attempt, webhook_configured>>
    /\ UNCHANGED <<core, webhook, health>>

\* main.py:259-262  shutdown returns or raises (logged)
shutdown_returns(outcome) ==
    /\ lifespan_pc = "await_shutdown"
    /\ lifespan_calls' = LComplete(lifespan_calls, outcome)
    /\ lifespan_pc' = "stopped"
    /\ UNCHANGED <<attempt, webhook_configured>>
    /\ UNCHANGED <<core, webhook, health>>

\* the steps of the startup half of lifespan
StartupStep ==
    \/ lifespan_startup
    \/ \E outcome \in CallOutcomes, url_set \in BOOLEAN : initialize_returns(outcome, url_set)
    \/ \E outcome \in CallOutcomes : get_webhook_info_returns(outcome)
    \/ \E outcome \in SetWebhookOutcomes : set_webhook_returns(outcome)
    \/ \E url_set \in BOOLEAN : retry_sleep_returns(url_set)

NextLifespan ==
    \/ StartupStep
    \/ lifespan_shutdown
    \/ \E outcome \in CallOutcomes : delete_webhook_returns(outcome)
    \/ \E outcome \in CallOutcomes : shutdown_returns(outcome)

\* the framework enters lifespan, every awaited call ends and the event loop
\* resumes lifespan; when the application stops is left open
SpecLifespan == Init /\ [][NextLifespan]_vars /\ WF_vars(StartupStep)

(***************************************************************************)
(* Vocabulary of the properties.                                           *)
(***************************************************************************)
\* the handler of c passed the shutdown gate
Handled(c) == pc[c] \notin {"idle", "dropped"}

\* c was admitted to the agent call
Accepted(c) == Handled(c) /\ calls[c] # <<>> /\ calls[c][1].op = "Runner.run"

\* the handler of c has returned, raised or was cancelled
Ended(c) == pc[c] \in {"dropped", "done", "raised", "cancelled"}

\* the calls of c to op, in order
CallsTo(c, op) == SelectSeq(calls[c], LAMBDA e : e.op = op)

\* the texts c passed to reply_text, in order
Replies(c) == [k \in 1..Len(CallsTo(c, "reply_text")) |-> CallsTo(c, "reply_text")[k].arg]

\* every awaited call of c so far returned normally
AllOk(c) == \A k \in 1..Len(calls[c]) : calls[c][k].result = "ok"

\* this step is the call of handler c, and c passes the shutdown gate
Handles(c) == pc[c] = "idle" /\ pc'[c] \notin {"idle", "dropped"}

\* this step is a step of handler c: it ran from one await to the next
StepOf(c) == pc'[c] # pc[c] /\ pc'[c] # "cancelled"

\* uid's entry of the table, as a set: empty without one
Entry(lmt, uid) == IF uid \in DOMAIN lmt THEN {lmt[uid]} ELSE {}

Abs(n) == IF n < 0 THEN -n ELSE n

RECURSIVE ConcatAll(_)
ConcatAll(texts) == IF texts = <<>> THEN "" ELSE Head(texts) \o ConcatAll(Tail(texts))

(***************************************************************************)
(* C1.  Two commands of one user whose arrival times (the values of        *)
(* time.time() their handlers read) are less than MIN_MESSAGE_INTERVAL     *)
(* apart are never both admitted to the agent call, however the handlers   *)
(* interleave at their awaits.                                             *)
(***************************************************************************)
C1_NeverBothAdmitted ==
    \A c1, c2 \in Cmds :
        (c1 # c2 /\ Accepted(c1) /\ Accepted(c2) /\ user_id[c1] = user_id[c2])
            => Abs(current_time[c1] - current_time[c2]) >= MIN_MESSAGE_INTERVAL

\* the second command arrives less than MIN_MESSAGE_INTERVAL after the first,
\* while the agent call of the first is in flight, and is not admitted
C1_Witness ==
    /\ pc[1] = "await_agent"
    /\ pc[2] = "await_rate_limit_reply"
    /\ user_id[1] = user_id[2]
    /\ current_time[2] - current_time[1] = 1

(***************************************************************************)
(* C2.  Once a command of a user was accepted at time T, every later       *)
(* command of that user with a query that passes the shutdown gate and     *)
(* reads a time below T + MIN_MESSAGE_INTERVAL is denied: the only call    *)
(* its handler makes is the reply "Please wait ...", never the agent.      *)
(***************************************************************************)
C2_DeniedInsideWindow ==
    \A c1, c2 \in Cmds :
        (/\ c1 < c2
         /\ Accepted(c1)
         /\ Handled(c2)
         /\ user_id[c2] = user_id[c1]
         /\ args[c2] # <<>>
         /\ current_time[c2] < current_time[c1] + MIN_MESSAGE_INTERVAL)
            => /\ Len(calls[c2]) = 1
               /\ calls[c2][1].op = "reply_text"
               /\ calls[c2][1].arg
                    = "Please wait a moment before asking another question..."

\* the denied command has returned and its reply was delivered
C2_Witness ==
    /\ Accepted(1)
    /\ pc[2] = "done"
    /\ user_id[2] = user_id[1]
    /\ args[2] # <<>>
    /\ current_time[2] < current_time[1] + MIN_MESSAGE_INTERVAL
    /\ calls[2] = <<[op |-> "reply_text", arg |-> PLEASE_WAIT, result |-> "ok"]>>

(***************************************************************************)
(* C3.  A command with a query is admitted, and the time it read becomes   *)
(* its sender's timestamp, whenever the sender has no timestamp or at      *)
(* least MIN_MESSAGE_INTERVAL passed since it (exactly MIN_MESSAGE_INTERVAL*)
(* included); an admitted command never gets the "Please wait ..." reply.  *)
(***************************************************************************)
C3_AdmittedOutsideWindow ==
    [][\A c \in Cmds :
          /\ (/\ Handles(c)
              /\ args'[c] # <<>>
              /\ \/ user_id'[c] \notin DOMAIN last_message_time
                 \/ current_time'[c] - last_message_time[user_id'[c]]
                        >= MIN_MESSAGE_INTERVAL)
                => /\ pc'[c] = "await_agent"
                   /\ Len(calls'[c]) = 1
                   /\ calls'[c][1].op = "Runner.run"
                   /\ user_id'[c] \in DOMAIN last_message_time'
                   /\ last_message_time'[user_id'[c]] = current_time'[c]
          /\ (Handled(c)' /\ calls'[c][1].op = "Runner.run")
                => \A k \in 1..Len(calls'[c]) : calls'[c][k].arg # PLEASE_WAIT
      ]_vars

\* the second command arrives exactly MIN_MESSAGE_INTERVAL after the first
\* and overwrites the timestamp
C3_Witness ==
    /\ Accepted(1)
    /\ Accepted(2)
    /\ user_id[2] = user_id[1]
    /\ current_time[2] - current_time[1] = MIN_MESSAGE_INTERVAL
    /\ last_message_time[user_id[2]] = current_time[2]

(***************************************************************************)
(* C4.  No step of a rate-limited command changes last_message_time: the   *)
(* table has the same keys and values after the step as before it.         *)
(***************************************************************************)
C4_DenyLeavesTable ==
    [][\A c \in Cmds :
          (/\ StepOf(c)
           /\ \/ pc'[c] = "await_rate_limit_reply"
              \/ pc[c] = "await_rate_limit_reply")
             => last_message_time' = last_message_time
      ]_vars

\* a denied command has ended and the sender's timestamp is still that of
\* the accepted command, not the time the denied one read
C4_Witness ==
    /\ Accepted(1)
    /\ Ended(2)
    /\ Replies(2) = <<PLEASE_WAIT>>
    /\ current_time[2] # current_time[1]
    /\ last_message_time[user_id[2]] = current_time[1]

(***************************************************************************)
(* C5.  The timestamp recorded for a user never decreases, and an entry    *)
(* never disappears.                                                       *)
(***************************************************************************)
C5_TimestampsNeverDecrease ==
    [][\A u \in DOMAIN last_message_time :
          /\ u \in DOMAIN last_message_time'
          /\ last_message_time'[u] >= last_message_time[u]
      ]_vars

\* a second accepted command has overwritten the entry with a later time
C5_Witness ==
    /\ Accepted(1)
    /\ Accepted(2)
    /\ user_id[2] = user_id[1]
    /\ last_message_time[user_id[2]] = current_time[2]
    /\ current_time[2] > current_time[1]

(***************************************************************************)
(* C6.  A step of the handler of a command of user A, whatever its         *)
(* outcome, leaves the entry (or its absence) of every other user as it    *)
(* was; and whether a command is denied is decided by its own sender's     *)
(* entry and the time it read alone.                                       *)
(***************************************************************************)
C6_UsersIndependent ==
    [][\A c \in Cmds :
          /\ StepOf(c)
                => \A b \in Users \ {user_id'[c]} :
                      Entry(last_message_time', b) = Entry(last_message_time, b)
          /\ Handles(c)
                => (pc'[c] = "await_rate_limit_reply"
                      <=> /\ user_id'[c] \in DOMAIN last_message_time
                          /\ current_time'[c] - last_message_time[user_id'[c]]
                                < MIN_MESSAGE_INTERVAL)
      ]_vars

\* user B is admitted one second after user A was, and both entries stand
C6_Witness ==
    /\ Accepted(1)
    /\ Accepted(2)
    /\ user_id[1] # user_id[2]
    /\ current_time[2] - current_time[1] = 1
    /\ last_message_time[user_id[1]] = current_time[1]
    /\ last_message_time[user_id[2]] = current_time[2]

(***************************************************************************)
(* C7.  A command without arguments whose sender is not inside a           *)
(* rate-limit window makes exactly one call, reply_text("you forgot to     *)
(* ask ..."), then ends; the agent is not called and no step of it changes *)
(* last_message_time.                                                      *)
(***************************************************************************)
C7_EmptyQueryOutsideWindow ==
    [][\A c \in Cmds :
          /\ (/\ Handles(c)
              /\ args'[c] = <<>>
              /\ ~ (/\ user_id'[c] \in DOMAIN last_message_time
                    /\ current_time'[c] - last_message_time[user_id'[c]]
                          < MIN_MESSAGE_INTERVAL))
                => /\ pc'[c] = "await_empty_reply"
                   /\ calls'[c] = <<[op |-> "reply_text",
                                     arg |-> "you forgot to ask ...",
                                     result |-> "pending"]>>
                   /\ last_message_time' = last_message_time
          /\ (StepOf(c) /\ pc[c] = "await_empty_reply")
                => /\ pc'[c] \in {"done", "raised"}
                   /\ Len(calls'[c]) = 1
                   /\ calls'[c][1].op = "reply_text"
                   /\ calls'[c][1].arg = "you forgot to ask ..."
                   /\ last_message_time' = last_message_time
      ]_vars

\* the first command ever has no arguments: one reply, no entry created
C7_Witness ==
    /\ pc[1] = "done"
    /\ args[1] = <<>>
    /\ calls[1] = <<[op |-> "reply_text", arg |-> FORGOT_TO_ASK, result |-> "ok"]>>
    /\ last_message_time = <<>>

(***************************************************************************)
(* C8.  As claimed: every command that passes the shutdown gate and whose  *)
(* tokens join to the empty text is answered "you forgot to ask ...",      *)
(* whatever the timestamp of its sender.                                   *)
(***************************************************************************)
C8_ValidationFirst ==
    \A c \in Cmds :
        (Handled(c) /\ Join(args[c]) = "")
            => /\ calls[c][1].op = "reply_text"
               /\ calls[c][1].arg = "you forgot to ask ..."

(***************************************************************************)
(* C8, amended.  The rate check precedes the validation: a command whose   *)
(* tokens join to the empty text is answered "Please wait ..." when its    *)
(* sender is inside a rate-limit window and "you forgot to ask ..." when   *)
(* not; either way that reply is its only call and last_message_time is    *)
(* left as it was.                                                         *)
(***************************************************************************)
C8_RateCheckFirst ==
    [][\A c \in Cmds :
          /\ (Handles(c) /\ Join(args'[c]) = "")
                => /\ calls'[c] =
                        <<[op |-> "reply_text",
                           arg |-> IF /\ user_id'[c] \in DOMAIN last_message_time
                                      /\ current_time'[c]
                                            - last_message_time[user_id'[c]]
                                            < MIN_MESSAGE_INTERVAL
                                     THEN "Please wait a moment before asking another question..."
                                     ELSE "you forgot to ask ...",
                           result |-> "pending"]>>
                   /\ last_message_time' = last_message_time
          /\ (StepOf(c) /\ Handled(c) /\ Join(args[c]) = "")
                => /\ pc'[c] \in {"done", "raised"}
                   /\ Len(calls'[c]) = 1
                   /\ calls'[c][1].arg = calls[c][1].arg
                   /\ last_message_time' = last_message_time
      ]_vars

\* a command without arguments, sent inside the window of its sender, was
\* answered "Please wait ..."
C8_Witness ==
    /\ Accepted(1)
    /\ pc[2] = "done"
    /\ user_id[2] = user_id[1]
    /\ args[2] = <<>>
    /\ Replies(2) = <<PLEASE_WAIT>>

(***************************************************************************)
(* C9.  An admitted command whose agent call succeeds with an answer of at *)
(* most MAX_CHUNK characters and whose send is accepted called the agent   *)
(* exactly once, with its tokens joined by single spaces, and sent exactly *)
(* one reply, the answer.                                                  *)
(***************************************************************************)
C9_OneAgentCallOneReply ==
    \A c \in Cmds :
        (/\ pc[c] = "done"
         /\ Accepted(c)
         /\ AllOk(c)
         /\ Len(answer[c]) <= MAX_CHUNK)
            => /\ Len(CallsTo(c, "Runner.run")) = 1
               /\ args[c] = <<"What", "is", "Python?">>
                     => CallsTo(c, "Runner.run")[1].arg = "What is Python?"
               /\ answer[c] \in Answers
               /\ Replies(c) = <<answer[c]>>

\* the scenario of tests/test_main.py:19-41
C9_Witness ==
    /\ pc[1] = "done"
    /\ args[1] = <<"What", "is", "Python?">>
    /\ calls[1] = << [op |-> "Runner.run", arg |-> "What is Python?", result |-> "ok"],
                     [op |-> "sleep", arg |-> "1.0", result |-> "ok"],
                     [op |-> "reply_text", arg |-> "Python is a programming language.",
                      result |-> "ok"] >>

(***************************************************************************)
(* C10.  When every send succeeds, the texts sent for an answer s are      *)
(* consecutive slices of s of at most MAX_CHUNK characters, all but the    *)
(* last of exactly MAX_CHUNK; concatenated in the order sent they are s;   *)
(* and there are ceil(len(s) / MAX_CHUNK) of them, but at least one.       *)
(***************************************************************************)
C10_ChunksRoundTrip ==
    \A c \in Cmds :
        (pc[c] = "done" /\ Accepted(c) /\ AllOk(c))
            => LET s == answer[c]
                   texts == Replies(c)
                   n == Len(texts)
               IN  /\ ConcatAll(texts) = s
                   /\ \A k \in 1..n :
                         /\ Len(texts[k]) <= MAX_CHUNK
                         /\ k < n => Len(texts[k]) = MAX_CHUNK
                         /\ texts[k] = SubSeq(s, (k - 1) * MAX_CHUNK + 1,
                                              (k - 1) * MAX_CHUNK + Len(texts[k]))
                   /\ n = IF Len(s) = 0 THEN 1
                          ELSE (Len(s) + MAX_CHUNK - 1) \div MAX_CHUNK
                   /\ Len(s) = MAX_CHUNK => n = 1
                   /\ Len(s) > MAX_CHUNK => n > 1

\* the 9000 characters of scenario 4 went out as 4096 + 4096 + 808
C10_Witness ==
    /\ pc[1] = "done"
    /\ AllOk(1)
    /\ Len(answer[1]) = 9000
    /\ Len(Replies(1)) = 3
    /\ Len(Replies(1)[3]) = 808

(***************************************************************************)
(* Vocabulary of the dispatch properties.                                  *)
(***************************************************************************)
\* e is a send of one of the chunks of c (main.py:123)
IsChunkSend(c, e) ==
    /\ e.op = "reply_text"
    /\ \E j \in 1..Len(chunks[c]) : e.arg = chunks[c][j]

\* the sends of chunks of c, in the order in which they were started
ChunkSends(c) == SelectSeq(calls[c], LAMBDA e : IsChunkSend(c, e))

\* the names of the calls of c, in order
Ops(c) == [k \in 1..Len(calls[c]) |-> calls[c][k].op]

\* the agent call of c returned an answer
Answered(c) == Accepted(c) /\ calls[c][1].result = "ok"

(***************************************************************************)
(* C11.  The chunks of one answer are sent one after the other in split    *)
(* order, whatever the other handler does between them: the k-th send of   *)
(* a chunk carries the k-th chunk (none twice, none skipped), it starts    *)
(* only after every earlier call of the command has completed, and when    *)
(* every send succeeded all chunks went out.                               *)
(***************************************************************************)
C11_ChunksInSplitOrder ==
    \A c \in Cmds :
        chunks[c] # <<>>
            => LET sends == ChunkSends(c)
                   n == Len(sends)
               IN  /\ chunks[c] \in { Chunks(a) : a \in Answers }
                   /\ 1 <= n /\ n <= Len(chunks[c])
                   /\ \A k \in 1..n : sends[k].arg = chunks[c][k]
                   /\ \A k \in 1..(n - 1) : sends[k].result = "ok"
                   /\ \A k \in 1..(Len(calls[c]) - 1) : calls[c][k].result # "pending"
                   /\ (pc[c] = "done" /\ AllOk(c)) => n = Len(chunks[c])

\* both chunks of the first command went out while the second command, which
\* has sent its first chunk, waits for the send of its second
C11_Witness ==
    /\ pc[1] = "done"
    /\ AllOk(1)
    /\ Len(ChunkSends(1)) = 2
    /\ ChunkSends(1)[2].arg = Slice(Text(5000), MAX_CHUNK, 5000)
    /\ pc[2] = "await_chunk"
    /\ i[2] = 1

(***************************************************************************)
(* C12.  Once the agent has returned an answer the next call is a delay,   *)
(* whatever the length of the answer; a later delay directly follows a     *)
(* chunk that was sent successfully and is directly followed by the send   *)
(* of the next chunk; a send that succeeded is followed by a delay or by   *)
(* nothing; and a handler never ends on a delay.  So n chunks all          *)
(* delivered come with n delays: the first and n - 1 between chunks.       *)
(***************************************************************************)
C12_DelaysBetweenSends ==
    \A c \in Cmds :
        Answered(c)
            => LET cs == calls[c]
                   n == Len(cs)
               IN  /\ n >= 2
                   /\ cs[2].op = "sleep"
                   /\ \A k \in 2..n :
                         cs[k].op = "sleep"
                            => /\ k > 2 => (cs[k - 1].op = "reply_text"
                                              /\ cs[k - 1].result = "ok"
                                              /\ IsChunkSend(c, cs[k - 1]))
                               /\ k < n => cs[k + 1].op = "reply_text"
                               /\ k = n => cs[k].result = "pending"
                   /\ \A k \in 3..(n - 1) :
                         (cs[k].op = "reply_text" /\ cs[k].result = "ok")
                            => cs[k + 1].op = "sleep"
                   /\ (pc[c] = "done" /\ AllOk(c))
                         => /\ cs[n].op = "reply_text"
                            /\ Len(CallsTo(c, "sleep")) = Len(Replies(c))
                            /\ Len(Replies(c)) =
                                  IF chunks[c] = <<>> THEN 1 ELSE Len(chunks[c])

\* three chunks delivered: the delay before the first and one before each of
\* the other two, none after the third
C12_Witness ==
    /\ pc[1] = "done"
    /\ AllOk(1)
    /\ Len(chunks[1]) = 3
    /\ Ops(1) = <<"Runner.run", "sleep", "reply_text", "sleep", "reply_text",
                  "sleep", "reply_text">>

(***************************************************************************)
(* C13.  A send of a chunk that raised RetryAfter is the last call of its  *)
(* command: the handler has returned, neither that chunk nor a later one   *)
(* is sent after it.                                                       *)
(***************************************************************************)
C13_OverloadAbortsChunks ==
    \A c \in Cmds :
        \A k \in 1..Len(calls[c]) :
            (IsChunkSend(c, calls[c][k]) /\ calls[c][k].result = "RetryAfter")
                => /\ k = Len(calls[c])
                   /\ pc[c] = "done"

\* the first of three chunks met the overload: two chunks were never sent
C13_Witness ==
    /\ Len(chunks[1]) = 3
    /\ Ops(1) = <<"Runner.run", "sleep", "reply_text">>
    /\ calls[1][3].arg = chunks[1][1]
    /\ calls[1][3].result = "RetryAfter"
    /\ pc[1] = "done"

(***************************************************************************)
(* C14.  When the send of a short answer (at most MAX_CHUNK characters,    *)
(* sent whole as the third call) raised RetryAfter, exactly one more call  *)
(* is made: the send of the notice that carries the wait time.  Whatever   *)
(* that send does, the handler then returns: nothing is sent after it and  *)
(* no error leaves ask.                                                    *)
(***************************************************************************)
C14_OneFallbackSwallowed ==
    \A c \in Cmds :
        (/\ Answered(c)
         /\ chunks[c] = <<>>
         /\ Len(calls[c]) >= 3
         /\ calls[c][3].result = "RetryAfter")
            => /\ Len(answer[c]) <= MAX_CHUNK
               /\ calls[c][3].arg = answer[c]
               /\ Len(calls[c]) = 4
               /\ calls[c][4].op = "reply_text"
               /\ calls[c][4].arg =
                    "Response ready but rate limited. Please wait 30 seconds before asking again."
               /\ pc[c] \in {"await_fallback", "done"}
               /\ calls[c][4].result # "pending" => pc[c] = "done"

\* an answer of exactly MAX_CHUNK characters met the overload, the fallback
\* notice was rejected, and the handler returned
C14_Witness ==
    /\ Len(answer[1]) = MAX_CHUNK
    /\ Ops(1) = <<"Runner.run", "sleep", "reply_text", "reply_text">>
    /\ calls[1][3].result = "RetryAfter"
    /\ calls[1][4].result = "Exception"
    /\ pc[1] = "done"

(***************************************************************************)
(* C15.  As claimed: a send of the answer, or of one of its chunks, that   *)
(* was rejected with an error other than RetryAfter is the last call of    *)
(* its command: no reply is attempted after it.                            *)
(***************************************************************************)
C15_RejectedSendOnlyLogged ==
    \A c \in Cmds :
        \A k \in 3..Len(calls[c]) :
            (/\ Answered(c)
             /\ calls[c][k].op = "reply_text"
             /\ IsChunkSend(c, calls[c][k]) \/ (chunks[c] = <<>> /\ k = 3)
             /\ calls[c][k].result = "Exception")
                => k = Len(calls[c])

C17_OverloadNeverRaises ==
    \A c \in Cmds :
        (\A k \in 1..Len(calls[c]) :
            calls[c][k].op = "reply_text" => calls[c][k].result \in {"RetryAfter", "pending"})
            => /\ pc[c] # "raised"
               /\ (/\ calls[c] # <<>>
                   /\ calls[c][Len(calls[c])].op = "reply_text"
                   /\ calls[c][Len(calls[c])].result = "RetryAfter")
                     => pc[c] = "done"

\* the agent of the first command failed and its error reply met the
\* overload; the second command was denied and its reply met the overload
C17_Witness ==
    /\ pc[1] = "done"
    /\ calls[1][1].result = "Exception"
    /\ Ops(1) = <<"Runner.run", "reply_text">>
    /\ calls[1][2].result = "RetryAfter"
    /\ pc[2] = "done"
    /\ calls[2] = <<[op |-> "reply_text", arg |-> PLEASE_WAIT, result |-> "RetryAfter"]>>

(***************************************************************************)
(* C18.  As claimed: whatever the agent and the reply channel do, no       *)
(* handler ever raises, and a step of one handler leaves the position, the *)
(* locals and the calls of every other handler as they were.               *)
(***************************************************************************)
C18_NoErrorLeavesAsk ==
    [][\A c \in Cmds :
          /\ pc'[c] # "raised"
          /\ StepOf(c)
                => \A d \in Cmds \ {c} :
                      /\ pc'[d] = pc[d]
                      /\ calls'[d] = calls[d]
                      /\ answer'[d] = answer[d]
                      /\ chunks'[d] = chunks[d]
                      /\ i'[d] = i[d]
      ]_vars

(***************************************************************************)
(* C19.  A command whose handler is called while is_shutting_down is true  *)
(* is dropped: the handler returns at once, it has made no call (no reply, *)
(* no agent call) and never makes one, and last_message_time is as it was. *)
(***************************************************************************)
C19_DroppedSilently ==
    [][\A c \in Cmds :
          /\ (pc[c] = "idle" /\ pc'[c] # "idle" /\ is_shutting_down)
                => /\ pc'[c] = "dropped"
                   /\ calls'[c] = <<>>
                   /\ last_message_time' = last_message_time
          /\ pc[c] = "dropped"
                => /\ pc'[c] = "dropped"
                   /\ calls'[c] = <<>>
      ]_vars

\* a command with a query, of a user never seen, arrived after the signal:
\* it was dropped and the user has no entry
C19_Witness ==
    /\ is_shutting_down
    /\ Accepted(1)
    /\ pc[2] = "dropped"
    /\ args[2] # <<>>
    /\ user_id[2] # user_id[1]
    /\ calls[2] = <<>>
    /\ user_id[2] \notin DOMAIN last_message_time

(***************************************************************************)
(* C20.  As claimed: a shutdown signal leaves every command that is past   *)
(* the shutdown gate in flight, so that it goes on to a terminal state of  *)
(* ask; and a command is dropped only when it arrives after the signal.    *)
(***************************************************************************)
C20_InFlightRunToCompletion ==
    [][\A c \in Cmds :
          /\ c \in InFlight => pc'[c] # "cancelled"
          /\ (pc[c] = "idle" /\ pc'[c] = "dropped") => is_shutting_down
      ]_vars

(***************************************************************************)
(* C21.  The timestamp of the sender is written before the agent is        *)
(* called and is never taken back: an accepted command's sender has an     *)
(* entry, not below the time the command read, from the start of the agent *)
(* call on, whatever becomes of the agent call and of the dispatch.  So a  *)
(* second command with a query of the same user that reads a time at least *)
(* MIN_MESSAGE_INTERVAL after the time the first read is admitted, also    *)
(* while the agent call of the first is in flight.                         *)
(***************************************************************************)
C21_RecordedBeforeAgent ==
    /\ \A c \in Cmds :
          Accepted(c)
             => /\ user_id[c] \in DOMAIN last_message_time
                /\ last_message_time[user_id[c]] >= current_time[c]
    /\ \A c1, c2 \in Cmds :
          (/\ c1 < c2
           /\ Accepted(c1)
           /\ Handled(c2)
           /\ user_id[c2] = user_id[c1]
           /\ args[c2] # <<>>
           /\ current_time[c2] >= current_time[c1] + MIN_MESSAGE_INTERVAL)
             => Accepted(c2)

\* the agent call of the first command has failed and its error reply was
\* rejected; the entry stands, and the second command of the user, exactly
\* MIN_MESSAGE_INTERVAL later, has been admitted
C21_Witness ==
    /\ pc[1] = "raised"
    /\ calls[1][1].op = "Runner.run"
    /\ calls[1][1].result = "Exception"
    /\ pc[2] = "await_agent"
    /\ user_id[2] = user_id[1]
    /\ current_time[2] = current_time[1] + MIN_MESSAGE_INTERVAL
    /\ last_message_time[user_id[1]] = current_time[2]

(***************************************************************************)
(* C22.  When Runner.run raised RetryAfter, the handler makes exactly one  *)
(* more call: the reply "Rate limit exceeded. Please wait N seconds before *)
(* trying again." with the N of the error.  It sends no answer, and        *)
(* however that reply ends (delivered, overload, any other error) the      *)
(* handler has returned.                                                   *)
(***************************************************************************)
C22_AgentOverloadNotice ==
    \A c \in Cmds :
        (Accepted(c) /\ calls[c][1].result = "RetryAfter")
            => /\ Len(calls[c]) = 2
               /\ calls[c][2].op = "reply_text"
               /\ calls[c][2].arg =
                    "Rate limit exceeded. Please wait 30 seconds before trying again."
               /\ retry_after[c] = RETRY_AFTER_SECONDS
               /\ chunks[c] = <<>>
               /\ answer[c] = ""
               /\ pc[c] \in {"await_retry_notice", "done"}
               /\ calls[c][2].result # "pending" => pc[c] = "done"

\* the notice itself was rejected and the handler returned
C22_Witness ==
    /\ Ops(1) = <<"Runner.run", "reply_text">>
    /\ calls[1][1].result = "RetryAfter"
    /\ calls[1][2].arg = RetryNotice(RETRY_AFTER_SECONDS)
    /\ calls[1][2].result = "Exception"
    /\ pc[1] = "done"

(***************************************************************************)
(* C27.  Of two accepted commands of one user the later one read a time at *)
(* least MIN_MESSAGE_INTERVAL above the time the earlier one read, so each *)
(* accepted command raises the user's timestamp by at least                *)
(* MIN_MESSAGE_INTERVAL, and the timestamp is the time the last accepted   *)
(* command read.  A command that reads a time below the recorded timestamp *)
(* (the clock went back) is denied.                                        *)
(***************************************************************************)
C27_AcceptedTimesApart ==
    \A c1, c2 \in Cmds :
        (c1 < c2 /\ Accepted(c1) /\ Handled(c2) /\ user_id[c2] = user_id[c1])
            => /\ Accepted(c2)
                  => /\ current_time[c2] - current_time[c1] >= MIN_MESSAGE_INTERVAL
                     /\ last_message_time[user_id[c2]] = current_time[c2]
               /\ ~ Accepted(c2)
                  => last_message_time[user_id[c2]] = current_time[c1]
               /\ current_time[c2] < current_time[c1]
                  => /\ ~ Accepted(c2)
                     /\ calls[c2][1].arg = PLEASE_WAIT

\* the second command of the user read a time before the recorded one and
\* was denied; the timestamp is still that of the first
C27_Witness ==
    /\ Accepted(1)
    /\ pc[2] = "done"
    /\ user_id[2] = user_id[1]
    /\ args[2] # <<>>
    /\ current_time[1] = MaxTime
    /\ current_time[2] = 0
    /\ Replies(2) = <<PLEASE_WAIT>>
    /\ last_message_time[user_id[1]] = MaxTime

(***************************************************************************)
(* C28.  When the send of the k-th chunk raised RetryAfter, the texts      *)
(* passed to reply_text by that command are the first k chunks and no      *)
(* other text (no notice, no error reply); the k - 1 before it were        *)
(* delivered, and together they are the first (k - 1) * MAX_CHUNK          *)
(* characters of the answer.                                               *)
(***************************************************************************)
C28_OverloadLeavesPrefix ==
    \A c \in Cmds :
        \A k \in 1..Len(ChunkSends(c)) :
            ChunkSends(c)[k].result = "RetryAfter"
                => LET sends == CallsTo(c, "reply_text")
                   IN  /\ Replies(c) = SubSeq(chunks[c], 1, k)
                       /\ \A j \in 1..(k - 1) : sends[j].result = "ok"
                       /\ answer[c] \in DispatchAnswers \cup Answers
                       /\ ConcatAll(SubSeq(Replies(c), 1, k - 1))
                             = SubSeq(answer[c], 1, (k - 1) * MAX_CHUNK)
                       /\ pc[c] = "done"

\* the third chunk of 9000 characters met the overload: 8192 characters went out
C28_Witness ==
    /\ Len(answer[1]) = 9000
    /\ Len(Replies(1)) = 3
    /\ CallsTo(1, "reply_text")[2].result = "ok"
    /\ CallsTo(1, "reply_text")[3].result = "RetryAfter"
    /\ Len(ConcatAll(SubSeq(Replies(1), 1, 2))) = 2 * MAX_CHUNK
    /\ pc[1] = "done"

(***************************************************************************)
(* C29.  The number of calls of reply_text of one command is bounded       *)
(* whatever the channel does: none for a dropped command; exactly one for  *)
(* a denied command, for a command without a query and for a command whose *)
(* agent call failed; at most two for a short answer; and at most n + 1    *)
(* for an answer of n chunks.                                              *)
(***************************************************************************)
C29_SendsBounded ==
    \A c \in Cmds :
        LET sent == Len(Replies(c))
        IN  /\ pc[c] \in {"idle", "dropped"} => sent = 0
            /\ (Handled(c) /\ ~ Accepted(c)) => sent = 1
            /\ (Accepted(c) /\ calls[c][1].result \in {"Exception", "RetryAfter"})
                  => sent = 1
            /\ (Answered(c) /\ chunks[c] = <<>>) => sent <= 2
            /\ chunks[c] # <<>> => sent <= Len(chunks[c]) + 1

\* the second chunk of the first command was rejected and the error reply
\* followed: three sends for two chunks; the second command was denied
C29_Witness ==
    /\ Len(chunks[1]) = 2
    /\ Len(Replies(1)) = 3
    /\ Ended(1)
    /\ Handled(2)
    /\ ~ Accepted(2)
    /\ Ended(2)
    /\ Len(Replies(2)) = 1

(***************************************************************************)
(* C30.  Provided every awaited call returns or raises, every call of ask  *)
(* ends: from any point of its handling a command reaches a state in which *)
(* its handler has returned (dropped, replied, dispatched or aborted), has *)
(* raised, or was cancelled by the shutdown.  No path repeats a call       *)
(* without end.                                                            *)
(***************************************************************************)
C30_AskTerminates ==
    \A c \in Cmds : (pc[c] # "idle") ~> Ended(c)

\* the longest path: both chunks of the answer sent with their delays, then
\* the handler returned; the other command ended as well
C30_Witness ==
    /\ pc[1] = "done"
    /\ Ops(1) = <<"Runner.run", "sleep", "reply_text", "sleep", "reply_text">>
    /\ pc[2] = "done"
    /\ Ops(2) = <<"Runner.run", "sleep", "reply_text", "reply_text">>

(***************************************************************************)
(* C23.  While is_shutting_down is true GET /health answers 503 and POST   *)
(* /webhook returns "shutting_down" at once: the payload is not parsed and *)
(* ask is never called for that update.  While it is false GET /health     *)
(* answers "healthy", POST /webhook parses the payload, and a parsed       *)
(* update is handed to ask, which is called in no other way.               *)
(***************************************************************************)
C23_EndpointsFollowFlag ==
    [][/\ health' # health
             => health' = IF is_shutting_down THEN "503" ELSE "healthy"
       /\ \A c \in Cmds :
             /\ (webhook[c] = "idle" /\ webhook'[c] # "idle")
                   => IF is_shutting_down
                        THEN /\ webhook'[c] = "shutting_down"
                             /\ pc'[c] = "idle"
                             /\ calls'[c] = <<>>
                        ELSE webhook'[c] = "await_json"
             /\ webhook[c] = "shutting_down"
                   => (webhook'[c] = "shutting_down" /\ pc'[c] = "idle")
             /\ (webhook[c] = "await_json" /\ webhook'[c] = "await_process_update")
                   => (pc'[c] # "idle" /\ Len(calls'[c]) = 1)
             /\ (pc[c] = "idle" /\ pc'[c] # "idle")
                   => (webhook[c] = "await_json" /\ ~ is_shutting_down)
      ]_vars

\* the first update was processed; after the signal /health answered 503 and
\* the second update was turned away unparsed
C23_Witness ==
    /\ is_shutting_down
    /\ health = "503"
    /\ webhook[1] = "ok"
    /\ pc[1] = "done"
    /\ webhook[2] = "shutting_down"
    /\ pc[2] = "idle"

(***************************************************************************)
(* C24.  No error of one update leaves webhook_handler: an error of the    *)
(* parser, and an error that process_update raises because ask raised,     *)
(* ends the request with the status "error"; a request never ends with an  *)
(* uncaught error, and a request whose handler returned ends with "ok".    *)
(***************************************************************************)
C24_WebhookContainsErrors ==
    \A c \in Cmds :
        /\ webhook[c] # "raised"
        /\ webhook[c] = "error" => pc[c] \in {"idle", "raised"}
        /\ (pc[c] = "idle" /\ webhook[c] \in {"ok", "error", "await_process_update"})
              => webhook[c] = "error"
        /\ pc[c] = "raised" => webhook[c] \in {"error", "ok"}
        /\ pc[c] = "done" => webhook[c] = "ok"

\* the payload of the first request could not be parsed, the handler of the
\* second raised: both requests ended with "error"
C24_Witness ==
    /\ webhook[1] = "error"
    /\ pc[1] = "idle"
    /\ webhook[2] = "error"
    /\ pc[2] = "raised"


(***************************************************************************)
(* Vocabulary of the lifespan properties.                                  *)
(***************************************************************************)
\* the positions in lifespan of the calls to op
LCallsTo(op) == { k \in 1..Len(lifespan_calls) : lifespan_calls[k].op = op }

\* a registration attempt succeeded: set_webhook returned True
Registered == \E k \in LCallsTo("set_webhook") : lifespan_calls[k].result = "True"

\* lifespan is past its yield: the application serves or stops
StartupOver == lifespan_pc \in {"serving", "await_delete_webhook", "await_shutdown", "stopped"}

\* lifespan is past the yield and in its teardown
Teardown == lifespan_pc \in {"await_delete_webhook", "await_shutdown", "stopped"}

\* C25: startup registers the webhook at most 3 times (and sleeps at most 3
\* times between attempts), no registration call and no sleep follows a
\* set_webhook that returned True, nothing but initialize is called when
\* initialize raised, and startup always reaches the yield, with or without
\* a registered webhook.
C25_StartupBounded ==
    /\ [](/\ Cardinality(LCallsTo("set_webhook")) <= WEBHOOK_ATTEMPTS
          /\ Cardinality(LCallsTo("get_webhook_info")) <= WEBHOOK_ATTEMPTS
          /\ Cardinality(LCallsTo("sleep")) <= WEBHOOK_ATTEMPTS
          /\ attempt \in 0..(WEBHOOK_ATTEMPTS - 1)
          /\ \A k \in LCallsTo("set_webhook") :
                lifespan_calls[k].result = "True" =>
                    \A j \in (k + 1)..Len(lifespan_calls) :
                        lifespan_calls[j].op \in {"delete_webhook", "shutdown"}
          /\ webhook_configured <=> Registered
          /\ (Len(lifespan_calls) > 0 /\ lifespan_calls[1].result = "Exception") =>
                /\ LCallsTo("get_webhook_info") \cup LCallsTo("set_webhook") \cup LCallsTo("sleep") = {}
                /\ StartupOver
                /\ ~webhook_configured)
    /\ <>StartupOver

\* the third attempt registered the webhook and the application serves
C25_Witness ==
    /\ lifespan_pc = "serving"
    /\ Cardinality(LCallsTo("set_webhook")) = WEBHOOK_ATTEMPTS
    /\ lifespan_calls[Len(lifespan_calls)] = [op |-> "set_webhook", result |-> "True"]
    /\ webhook_configured

\* C26: in the teardown delete_webhook is called exactly when a registration
\* succeeded during startup; the teardown ends only after shutdown was
\* called, whatever delete_webhook did, and it ends whatever shutdown did;
\* neither is called before the teardown or more than once.
C26_TeardownAlwaysShutsDown ==
    /\ Teardown => ((LCallsTo("delete_webhook") # {}) <=> Registered)
    /\ ~Teardown => LCallsTo("delete_webhook") \cup LCallsTo("shutdown") = {}
    /\ Cardinality(LCallsTo("delete_webhook")) <= 1
    /\ Cardinality(LCallsTo("shutdown")) <= 1
    /\ lifespan_pc = "await_shutdown" =>
          lifespan_calls[Len(lifespan_calls)] = [op |-> "shutdown", result |-> "pending"]
    /\ lifespan_pc = "stopped" =>
          /\ lifespan_calls[Len(lifespan_calls)].op = "shutdown"
          /\ lifespan_calls[Len(lifespan_calls)].result \in CallOutcomes
    /\ (Teardown /\ lifespan_calls[Len(lifespan_calls)].result # "pending") =>
          lifespan_pc = "stopped"

\* delete_webhook raised, shutdown was called all the same and raised too,
\* and the teardown ended
C26_Witness ==
    /\ lifespan_pc = "stopped"
    /\ Registered
    /\ \E k \in LCallsTo("delete_webhook") : lifespan_calls[k].result = "Exception"
    /\ lifespan_calls[Len(lifespan_calls)] = [op |-> "shutdown", result |-> "Exception"]


\* C31: is_shutting_down starts False and changes only in a step of
\* signal_handler, from False to True: no step of ask, of webhook_handler or
\* of health_check writes it, and once True it stays True.
C31_FlagOnlySetBySignal ==
    [][/\ is_shutting_down => is_shutting_down'
       /\ is_shutting_down' # is_shutting_down =>
             /\ signal_handler
             /\ ~is_shutting_down
             /\ is_shutting_down']_vars

\* the signal arrived while a request was in flight; afterwards the health
\* check and a further webhook request were handled with the flag still set
C31_Witness ==
    /\ is_shutting_down
    /\ webhook[1] = "cancelled"
    /\ pc[1] = "cancelled"
    /\ webhook[2] = "shutting_down"
    /\ health = "503"

=============================================================================
